---- MODULE Spec2Model ----
(***************************************************************************)
(* Model of the presentation / question-answering session orchestrator:   *)
(*   conversation_controller.py  ConversationController                   *)
(*   web_backend.py              websocket_endpoint, stream_presentation, *)
(*                               handle_presentation_command,             *)
(*                               restart_presentation_streaming           *)
(*   conversation_history.py     ConversationHistory                      *)
(*   presentation_generator.py   get_segment, get_total_segments          *)
(*                                                                         *)
(* One session (one conversation id, one websocket) is modelled.  Every   *)
(* action is one run of code between two suspension points of the asyncio *)
(* event loop.  rag_engine.answer_question contains no await, so the      *)
(* answer is computed without yielding to the loop: the state "answering" *)
(* exists (it is the moment the Answer Provider is invoked) but no other  *)
(* task runs while the handler is in it.                                  *)
(***************************************************************************)
EXTENDS Integers, Sequences, FiniteSets, TLC

\* ---------------------------------------------------------------- bounds
MaxSegments == 2        \* largest number of segments in the Segment Store
MaxTasks == 2           \* driver tasks that can exist at the same time
MaxTimers == 1          \* scheduled resumes that can be pending at once
MaxClock == 1           \* readings of time.time() that can be told apart

\* --------------------------------------------------------- program values
None == -1              \* Python None in an Optional[int] / Optional[str]
PRESENTATION == "presentation"
RAG == "rag"

VARIABLES
    segments,           \* len(presentation_generator.segments)
    state,              \* conversations[conversation_id] : ConversationState
    conn,               \* "new" | "open" | "closed": id in active_connections
    presentation_tasks, \* registry entry of the session: task slot, or 0
    tasks,              \* task slot -> "free" | "init" | "dwell" | "cancelled"
    timers,             \* pending _resume_presentation_after_delay tasks
    pc,                 \* position of the websocket_endpoint coroutine
    hm,                 \* locals of the handle_message call in progress
    now,                \* time.time()
    out,                \* envelopes handed to the websocket by the last step
    ev,                 \* the step taken last
    lastFetch,          \* id returned by the latest successful fetch
    exhausted,          \* a fetch has found no segment
    resumedSince,       \* a scheduled resume reset the cursor since lastFetch
    prevFetch,          \* id returned by the successful fetch before lastFetch
    interruptedLast,    \* a user message interrupted the last segment
    undisturbed,        \* no command or disconnect since the latest interruption
    appended,           \* history entries the last step appended (role, type)
    conversation_id,    \* the id in the URL the websocket was opened with
    conversations,      \* keys of ConversationController.conversations
    message_data,       \* the inbound event the endpoint received last
    sendError,          \* websocket.send_text raised in the driver's last step
    sendFailedSince,    \* what followed the latest failed send of a driver
    max_history,        \* ConversationHistory.max_history
    history,            \* ConversationHistory.history[conversation_id]
    log,                \* every entry ever passed to add_message, in order
    max_messages,       \* budget of the latest get_context call
    context             \* result of the latest get_context call

vars == <<segments, state, conn, presentation_tasks, tasks, timers, pc, hm,
          now, out, ev, lastFetch, exhausted, resumedSince, prevFetch,
          interruptedLast, undisturbed, appended,
          conversation_id, conversations, message_data, sendError, sendFailedSince,
          max_history, history, log, max_messages, context>>

HistVars == <<max_history, history, log, max_messages, context>>

SessionVars == <<segments, state, conn, presentation_tasks, tasks, timers, pc,
                 hm, out, lastFetch, exhausted, resumedSince, prevFetch,
                 interruptedLast, undisturbed, appended,
                 conversation_id, conversations, message_data, sendError,
                 sendFailedSince>>

Ids == <<conversation_id, conversations>>

Slots == 1..MaxTasks

Max(a, b) == IF a >= b THEN a ELSE b

\* ------------------------------------------------------------ Segment Store
SegText(i) == 100 + i       \* narration text of segment i, distinct per id

\* variant: the Segment Store does not give out its last segment
get_segment_WithoutLast(segment_id) ==
    IF 0 <= segment_id /\ segment_id < segments - 1 THEN segment_id ELSE None

get_segment(segment_id) ==
    IF 0 <= segment_id /\ segment_id < segments THEN segment_id ELSE None

\* variant: the segment count is taken one too large
get_total_segments_OffByOne == segments + 1

get_total_segments == segments

\* ------------------------------------------------------------- envelopes
Envelope(type, text, images, segment_id, pause_timestamp) ==
    [type |-> type, text |-> text, images |-> images,
     segment_id |-> segment_id, pause_timestamp |-> pause_timestamp]

ConclusionText == 99

\* ------------------------------------------------------ ConversationState
\* variant: a new conversation starts with the cursor after the first segment
create_conversation_SkipsFirst ==
    [mode |-> PRESENTATION,
     current_segment |-> 1,
     presentation_paused |-> FALSE,
     paused_at_segment |-> None,
     paused_mid_segment |-> FALSE,
     pause_timestamp |-> None,
     interrupted_segment_text |-> None]

create_conversation ==
    [mode |-> PRESENTATION,
     current_segment |-> 0,
     presentation_paused |-> FALSE,
     paused_at_segment |-> None,
     paused_mid_segment |-> FALSE,
     pause_timestamp |-> None,
     interrupted_segment_text |-> None]

\* the role and type handed to conversation_history.add_message
Appended(role, type) == [role |-> role, type |-> type]

DefaultMaxHistory == 20

NoCall == [branch |-> "none", currently_displaying_segment |-> None,
           search |-> "none", llm |-> "none"]

\* --------------------------------------------------------- conversation ids
Created == "created"                \* the id create_conversation returned
NeverCreated == "never_created"     \* an id no create_conversation returned

ConversationIds == {Created, NeverCreated}

\* variant: handle_message goes on without a ConversationState
handle_message_raises_Never == FALSE

\* handle_message: "if not state: raise ValueError"
handle_message_raises == conversation_id \notin conversations

\* variant: a command is carried out without a ConversationState
command_returns_early_Never == FALSE

\* handle_presentation_command: "if not state: return"
command_returns_early == conversation_id \notin conversations

\* ------------------------------------------------------------ inbound events
Commands == {"pause_presentation", "resume_presentation", "segment_complete",
             "next_slide"}

\* no inbound event in hand
NoMessage == [command |-> "none", text |-> FALSE]

\* variant: an event with a text is a user message whatever else it carries
Route_TextFirst(md) ==
    IF md.text THEN "message"
    ELSE IF md.command # "none" THEN "command"
    ELSE "ignored"

\* websocket_endpoint: "if 'command' in message_data" comes before the text
Route(md) ==
    IF md.command # "none" THEN "command"
    ELSE IF md.text THEN "message"
    ELSE "ignored"

\* receive_text returns an event, which the endpoint hands to the handler
Receive(commands, texts, handler) ==
    \E command \in commands, text \in texts :
        LET md == [command |-> command, text |-> text]
        IN /\ Route(md) = handler
           /\ message_data' = md

\* a step of another task: the endpoint keeps the event it is working on
EndpointKeeps ==
    message_data' = IF pc \in {"idle", "closed"} THEN NoMessage ELSE message_data

\* a step in which no driver sends
NoSend == sendError' = FALSE /\ UNCHANGED sendFailedSince

Background == NoSend /\ EndpointKeeps

\* a step of the endpoint: what it makes of the latest failed send
Handled(resume_or_skip) ==
    /\ sendError' = FALSE
    /\ sendFailedSince' = IF resume_or_skip THEN "no"
                          ELSE IF sendFailedSince = "failed" THEN "handled"
                          ELSE sendFailedSince

\* ------------------------------------------------------------ driver tasks
Live(tk) == {t \in Slots : tk[t] \in {"init", "dwell"}}

HasFree(tk) == \E t \in Slots : tk[t] = "free"

FreeSlot(tk) == CHOOSE t \in Slots : tk[t] = "free" /\ \A u \in Slots : tk[u] = "free" => t <= u

\* task.cancel() guarded by "if not task.done()"
Cancel(tk, t) ==
    IF t # 0 /\ tk[t] \in {"init", "dwell"} THEN [tk EXCEPT ![t] = "cancelled"] ELSE tk

\* asyncio.create_task(stream_presentation(...)); presentation_tasks[id] = task
CreateTask(tk) == [tk EXCEPT ![FreeSlot(tk)] = "init"]

SessionInit ==
    /\ segments \in 0..MaxSegments
    /\ conversations = {Created}
    /\ message_data = NoMessage
    /\ sendError = FALSE
    /\ sendFailedSince = "no"
    /\ state = create_conversation
    /\ conn = "new"
    /\ presentation_tasks = 0
    /\ tasks = [t \in Slots |-> "free"]
    /\ timers = 0
    /\ pc = "idle"
    /\ hm = NoCall
    /\ now = 0
    /\ out = <<>>
    /\ ev = "init"
    /\ lastFetch = None
    /\ exhausted = FALSE
    /\ resumedSince = FALSE
    /\ prevFetch = None
    /\ interruptedLast = FALSE
    /\ undisturbed = FALSE
    /\ appended = <<>>

Init ==
    /\ SessionInit
    /\ conversation_id \in ConversationIds
    /\ max_history = DefaultMaxHistory
    /\ history = <<>>
    /\ log = <<>>
    /\ max_messages = None
    /\ context = <<>>

Ghost == <<lastFetch, exhausted, resumedSince, prevFetch>>

\* time passes
Tick ==
    /\ now < MaxClock
    /\ now' = now + 1
    /\ out' = <<>>
    /\ ev' = "tick"
    /\ UNCHANGED <<segments, state, conn, presentation_tasks, tasks, timers, pc, hm, Ghost>>
    /\ appended' = <<>>
    /\ UNCHANGED <<interruptedLast, undisturbed, HistVars, Ids>>
    /\ Background

\* websocket_endpoint: accept, register the connection, start the first driver
Connect ==
    /\ conn = "new"
    /\ conn' = "open"
    /\ tasks' = CreateTask(tasks)
    /\ presentation_tasks' = FreeSlot(tasks)
    /\ out' = <<>>
    /\ ev' = "connect"
    /\ UNCHANGED <<segments, state, timers, pc, hm, now, Ghost>>
    /\ appended' = <<>>
    /\ UNCHANGED <<interruptedLast, undisturbed, HistVars, Ids>>
    /\ Background

\* --------------------------------------------------- stream_presentation
\* the event loop can run another task: the endpoint is not inside the
\* synchronous answer_question call
LoopFree == pc # "answering"

\* "finally": the task ends and deletes the session's registry entry,
\* whichever task that entry refers to
TaskEnds(t) ==
    /\ tasks' = [tasks EXCEPT ![t] = "free"]
    /\ presentation_tasks' = 0

\* variant: the session stays in PRESENTATION when the segments run out
ExhaustedState_KeepsMode(s) == s

\* get_next_segment when the Segment Store has no segment at the cursor
ExhaustedState(s) == [s EXCEPT !.mode = RAG]

\* variant: the cursor moves on also when the Segment Store has no segment
get_next_segment_AlwaysAdvances(t) ==
    /\ state' = IF get_segment(state.current_segment) # None
                THEN [state EXCEPT !.current_segment = state.current_segment + 1]
                ELSE [state EXCEPT !.current_segment = state.current_segment + 1,
                                   !.mode = RAG]
    /\ IF get_segment(state.current_segment) # None
       THEN /\ out' = <<Envelope("presentation", SegText(state.current_segment),
                                 state.current_segment, state.current_segment, None)>>
            /\ lastFetch' = state.current_segment
            /\ prevFetch' = lastFetch
            /\ resumedSince' = FALSE
            /\ ev' = "fetch"
            /\ UNCHANGED exhausted
       ELSE /\ out' = <<Envelope("presentation", ConclusionText, None, None, None)>>
            /\ exhausted' = TRUE
            /\ ev' = "exhausted"
            /\ UNCHANGED <<lastFetch, resumedSince, prevFetch>>

\* controller.get_next_segment, called with mode = PRESENTATION and not paused
get_next_segment(t) ==
    IF get_segment(state.current_segment) # None
    THEN /\ out' = <<Envelope("presentation", SegText(state.current_segment),
                              state.current_segment, state.current_segment, None)>>
         /\ state' = [state EXCEPT !.current_segment = state.current_segment + 1]
         /\ lastFetch' = state.current_segment
         /\ prevFetch' = lastFetch
         /\ resumedSince' = FALSE
         /\ ev' = "fetch"
         /\ UNCHANGED exhausted
    ELSE /\ out' = <<Envelope("presentation", ConclusionText, None, None, None)>>
         /\ state' = ExhaustedState(state)
         /\ exhausted' = TRUE
         /\ ev' = "exhausted"
         /\ UNCHANGED <<lastFetch, resumedSince, prevFetch>>

\* variant: the loop goes on although the presentation is paused
StopsLoop_IgnoresPause ==
    \/ conn # "open"
    \/ conversation_id \notin conversations
    \/ state.mode # PRESENTATION

\* the checks at the top of "while conversation_id in active_connections":
\* the connection is gone, the state is missing, the mode is not
\* PRESENTATION or the presentation is paused
StopsLoop ==
    \/ conn # "open"
    \/ conversation_id \notin conversations
    \/ state.mode # PRESENTATION
    \/ state.presentation_paused

\* variant: the poll of the dwell wait looks at the mode only
StopsDwell_IgnoresPause ==
    \/ conversation_id \notin conversations
    \/ state.mode # PRESENTATION

\* the check after every half second of the dwell wait
StopsDwell ==
    \/ conversation_id \notin conversations
    \/ state.mode # PRESENTATION
    \/ state.presentation_paused

\* variant: a driver whose send raised waits and goes round the loop again
SendSegment_Retry(t, raised) ==
    /\ sendError' = raised
    /\ sendFailedSince' = IF raised THEN "failed" ELSE sendFailedSince
    /\ tasks' = [tasks EXCEPT ![t] = "dwell"]
    /\ UNCHANGED presentation_tasks

\* "await websocket.send_text(...)": if it raises, "except Exception: break"
\* and "finally" end the task; if not, the dwell wait begins
SendSegment(t, raised) ==
    /\ sendError' = raised
    /\ sendFailedSince' = IF raised THEN "failed" ELSE sendFailedSince
    /\ IF raised
       THEN TaskEnds(t)
       ELSE /\ tasks' = [tasks EXCEPT ![t] = "dwell"]
            /\ UNCHANGED presentation_tasks

\* one pass of "while conversation_id in active_connections": the checks of
\* the live state, the fetch and the hand-over to the websocket
LoopIteration(t) ==
    IF StopsLoop
    THEN /\ TaskEnds(t)
         /\ out' = <<>>
         /\ appended' = <<>>
         /\ ev' = "driver_exit"
         /\ NoSend
         /\ UNCHANGED <<state, Ghost>>
    ELSE /\ get_next_segment(t)
         /\ appended' = <<Appended("assistant", "presentation")>>
         /\ \E raised \in BOOLEAN : SendSegment(t, raised)

\* the initial asyncio.sleep(1) is over
DriverWake(t) ==
    /\ LoopFree
    /\ tasks[t] = "init"
    /\ LoopIteration(t)
    /\ UNCHANGED <<segments, conn, timers, pc, hm, now>>
    /\ UNCHANGED <<interruptedLast, undisturbed, HistVars, Ids>>
    /\ EndpointKeeps

\* a poll of the dwell wait that is not the last one
DriverPoll(t) ==
    /\ LoopFree
    /\ tasks[t] = "dwell"
    /\ IF StopsDwell
       THEN /\ TaskEnds(t)
            /\ ev' = "driver_exit"
       ELSE /\ ev' = "poll"
            /\ UNCHANGED <<tasks, presentation_tasks>>
    /\ out' = <<>>
    /\ UNCHANGED <<segments, state, conn, timers, pc, hm, now, Ghost>>
    /\ appended' = <<>>
    /\ UNCHANGED <<interruptedLast, undisturbed, HistVars, Ids>>
    /\ Background

\* the last poll of the dwell wait: elapsed reaches total_wait_time and the
\* loop goes round without suspending
DriverDwellEnd(t) ==
    /\ LoopFree
    /\ tasks[t] = "dwell"
    /\ ~StopsDwell
    /\ LoopIteration(t)
    /\ UNCHANGED <<segments, conn, timers, pc, hm, now>>
    /\ UNCHANGED <<interruptedLast, undisturbed, HistVars, Ids>>
    /\ EndpointKeeps

\* CancelledError is delivered to a task whose cancel() was called
DriverCancelled(t) ==
    /\ LoopFree
    /\ tasks[t] = "cancelled"
    /\ TaskEnds(t)
    /\ out' = <<>>
    /\ ev' = "cancelled"
    /\ UNCHANGED <<segments, state, conn, timers, pc, hm, now, Ghost>>
    /\ appended' = <<>>
    /\ UNCHANGED <<interruptedLast, undisturbed, HistVars, Ids>>
    /\ Background

\* -------------------------------------------- restart_presentation_streaming
\* the restart callback, applied to the state s, the tasks tk and the registry
\* entry reg; the result carries what it leaves behind and what it sends
\* variant: the restart callback does not look for the connection
Connected_Always == TRUE

\* "conversation_id in websocket_connections and conversation_id in
\* active_connections"
Connected == conn = "open"

RestartStartsTask(s) == Connected /\ s.interrupted_segment_text = None

\* variant: the restart cancels the registered task and starts none
restart_presentation_streaming_NoTask(s, tk, reg) ==
    [state |-> s, tasks |-> Cancel(tk, reg), presentation_tasks |-> reg,
     out |-> <<>>, success |-> conn = "open"]

restart_presentation_streaming(s, tk, reg) ==
    IF Connected
    THEN LET tk1 == Cancel(tk, reg) IN
         IF s.interrupted_segment_text # None
         THEN LET segment == get_segment(s.current_segment) IN
              [state |-> [s EXCEPT !.interrupted_segment_text = None],
               tasks |-> tk1,
               presentation_tasks |-> reg,
               out |-> IF segment # None
                       THEN <<Envelope("presentation_resume", s.interrupted_segment_text,
                                       segment, segment, None)>>
                       ELSE <<>>,
               success |-> TRUE]
         ELSE [state |-> s,
               tasks |-> CreateTask(tk1),
               presentation_tasks |-> FreeSlot(tk1),
               out |-> <<>>,
               success |-> TRUE]
    ELSE [state |-> s, tasks |-> tk, presentation_tasks |-> reg,
          out |-> <<>>, success |-> FALSE]

\* ------------------------------------- _resume_presentation_after_delay
\* the state the controller leaves when the delay is over, before it calls
\* the restart callback
ResumeBranch(s) ==
    IF s.presentation_paused /\ s.paused_at_segment # None
    THEN IF s.paused_at_segment >= get_total_segments - 1
         THEN "finalize" ELSE "resume"
    ELSE "none"

\* variant: the resume continues with the segment after the interrupted one
ResumedState_NextSegment(s) ==
    [s EXCEPT !.current_segment = s.paused_at_segment + 1,
              !.mode = PRESENTATION,
              !.presentation_paused = FALSE,
              !.paused_at_segment = None,
              !.interrupted_segment_text = None,
              !.paused_mid_segment = FALSE]

ResumedState(s) ==
    [s EXCEPT !.current_segment = s.paused_at_segment,
              !.mode = PRESENTATION,
              !.presentation_paused = FALSE,
              !.paused_at_segment = None,
              !.interrupted_segment_text = None,
              !.paused_mid_segment = FALSE]

FinalizedState(s) ==
    [s EXCEPT !.mode = RAG,
              !.presentation_paused = FALSE,
              !.paused_at_segment = None,
              !.interrupted_segment_text = None]

\* a scheduled resume fires
ScheduledResume ==
    /\ LoopFree
    /\ timers > 0
    /\ timers' = timers - 1
    /\ CASE ResumeBranch(state) = "none" ->
              /\ ev' = "resume_skipped"
              /\ out' = <<>>
              /\ UNCHANGED <<state, tasks, presentation_tasks, resumedSince>>
         [] ResumeBranch(state) = "finalize" ->
              /\ state' = FinalizedState(state)
              /\ ev' = "resume_finalized"
              /\ out' = <<>>
              /\ UNCHANGED <<tasks, presentation_tasks, resumedSince>>
         [] ResumeBranch(state) = "resume" ->
              LET s1 == ResumedState(state)
                  r == restart_presentation_streaming(s1, tasks, presentation_tasks)
              IN /\ RestartStartsTask(s1) => HasFree(Cancel(tasks, presentation_tasks))
                 /\ state' = r.state
                 /\ tasks' = r.tasks
                 /\ presentation_tasks' = r.presentation_tasks
                 /\ out' = r.out
                 /\ ev' = "resumed"
                 /\ resumedSince' = TRUE
    /\ UNCHANGED <<segments, conn, pc, hm, now, lastFetch, exhausted, prevFetch>>
    /\ appended' = <<>>
    /\ UNCHANGED <<interruptedLast, undisturbed, HistVars, Ids>>
    /\ Background

\* ------------------------------------------------ rag_engine.answer_question
ApologyText == 90           \* "I apologize, but I'm having trouble ..."
NoInformationText == 91     \* "I don't have enough information ..."
FallbackText == 92          \* "Based on the documents, here's what I found: ..."
AnswerText == 93            \* the text the language model returned

\* BotResponse(type = "rag_answer", text, sources)
RagAnswer(text, sources) ==
    [type |-> "rag_answer", text |-> text, images |-> None, segment_id |-> None,
     pause_timestamp |-> None, sources |-> sources]

\* what the similarity search and the language-model call can do in one run:
\* the search raises, finds nothing or finds pages; the model is called only
\* when pages were found, and raises or answers
ProviderRuns ==
    {[search |-> "raises", llm |-> "none"], [search |-> "empty", llm |-> "none"],
     [search |-> "pages", llm |-> "raises"], [search |-> "pages", llm |-> "ok"]}

\* variant: a failed language-model call is answered like a failed search
answer_question_ApologyOnly(search, llm) ==
    IF search = "raises" \/ llm = "raises" THEN RagAnswer(ApologyText, <<>>)
    ELSE IF search = "empty" THEN RagAnswer(NoInformationText, <<>>)
    ELSE RagAnswer(AnswerText, <<"page">>)

answer_question(search, llm) ==
    IF search = "raises" THEN RagAnswer(ApologyText, <<>>)
    ELSE IF search = "empty" THEN RagAnswer(NoInformationText, <<>>)
    ELSE IF llm = "raises" THEN RagAnswer(FallbackText, <<"page">>)
    ELSE RagAnswer(AnswerText, <<"page">>)

\* ----------------------------------------------------------- user messages
\* websocket_endpoint receives a message with a non-empty text, cancels the
\* driver if the presentation is running, and enters handle_message, which
\* runs up to the call of rag_engine.answer_question
\* variant: the cursor itself is recorded as the interrupted segment
InterruptedState_Cursor(s) ==
    LET interrupted_segment == get_segment(s.current_segment)
    IN [s EXCEPT !.interrupted_segment_text =
                     IF interrupted_segment # None
                     THEN SegText(interrupted_segment)
                     ELSE s.interrupted_segment_text,
                 !.mode = RAG,
                 !.presentation_paused = TRUE,
                 !.paused_at_segment = s.current_segment,
                 !.paused_mid_segment = TRUE]

\* variant: the text of the segment at the cursor is captured
InterruptedText_AtCursor(s) ==
    LET interrupted_segment == get_segment(s.current_segment)
    IN IF interrupted_segment # None
       THEN SegText(interrupted_segment)
       ELSE s.interrupted_segment_text

\* handle_message: the narration text of the segment on display is captured
\* if the Segment Store has that segment
InterruptedText(s) ==
    LET interrupted_segment == get_segment(Max(0, s.current_segment - 1))
    IN IF interrupted_segment # None
       THEN SegText(interrupted_segment)
       ELSE s.interrupted_segment_text

InterruptedState(s) ==
    LET currently_displaying_segment == Max(0, s.current_segment - 1)
    IN [s EXCEPT !.interrupted_segment_text = InterruptedText(s),
                 !.mode = RAG,
                 !.presentation_paused = TRUE,
                 !.paused_at_segment = currently_displaying_segment,
                 !.paused_mid_segment = TRUE]

HandleMessage ==
    /\ pc = "idle"
    /\ conn = "open"
    /\ ~handle_message_raises
    /\ tasks' = IF state.mode = PRESENTATION /\ ~state.presentation_paused
                THEN Cancel(tasks, presentation_tasks)
                ELSE tasks
    /\ IF state.mode = PRESENTATION
       THEN /\ state' = InterruptedState(state)
            /\ \E run \in ProviderRuns :
                   hm' = [branch |-> "interrupt",
                          currently_displaying_segment |-> Max(0, state.current_segment - 1),
                          search |-> run.search, llm |-> run.llm]
            /\ ev' = "interrupt"
       ELSE /\ \E run \in ProviderRuns :
                   hm' = [branch |-> "rag", currently_displaying_segment |-> None,
                          search |-> run.search, llm |-> run.llm]
            /\ ev' = "question"
            /\ UNCHANGED state
    /\ appended' = <<Appended("user", "question")>>
    /\ pc' = "answering"
    /\ out' = <<>>
    /\ UNCHANGED <<segments, conn, presentation_tasks, timers, now, Ghost>>
    /\ IF state.mode = PRESENTATION
       THEN /\ interruptedLast' = (interruptedLast
                                   \/ Max(0, state.current_segment - 1) >= segments - 1)
            /\ undisturbed' = TRUE
       ELSE UNCHANGED <<interruptedLast, undisturbed>>
    /\ UNCHANGED <<HistVars, Ids>>
    /\ Receive(Commands \cup {"none"}, {TRUE}, "message")
    /\ Handled(FALSE)

\* answer_question returns; handle_message appends the answer, schedules the
\* resume unless the interrupted segment is the last one, and returns; the
\* endpoint hands the answer to the websocket
\* variant: the resume is scheduled whichever branch answered
SchedulesResume_AnyBranch(h) ==
    h.currently_displaying_segment < get_total_segments - 1

\* handle_message schedules the resume in the interrupt branch only, and only
\* if the interrupted segment is not the last one
SchedulesResume(h) ==
    /\ h.branch = "interrupt"
    /\ h.currently_displaying_segment < get_total_segments - 1

AnswerReturns ==
    /\ pc = "answering"
    /\ IF SchedulesResume(hm)
       THEN /\ timers < MaxTimers
            /\ timers' = timers + 1
       ELSE UNCHANGED timers
    /\ appended' = <<Appended("assistant", "rag_answer")>>
    /\ out' = <<answer_question(hm.search, hm.llm)>>
    /\ pc' = "sending"
    /\ hm' = NoCall
    /\ ev' = "answer"
    /\ UNCHANGED <<segments, state, conn, presentation_tasks, tasks, now, Ghost>>
    /\ UNCHANGED <<interruptedLast, undisturbed, HistVars, Ids>>
    /\ UNCHANGED message_data
    /\ Handled(FALSE)

\* websocket.send_text(response) is over: the endpoint restarts the streaming
\* if the presentation is running
SendDone ==
    /\ pc = "sending"
    /\ conn = "open"
    /\ IF state.mode = PRESENTATION /\ ~state.presentation_paused
       THEN /\ HasFree(tasks)
            /\ tasks' = CreateTask(tasks)
            /\ presentation_tasks' = FreeSlot(tasks)
       ELSE UNCHANGED <<tasks, presentation_tasks>>
    /\ pc' = "idle"
    /\ out' = <<>>
    /\ ev' = "sent"
    /\ UNCHANGED <<segments, state, conn, timers, hm, now, Ghost>>
    /\ appended' = <<>>
    /\ UNCHANGED <<interruptedLast, undisturbed, HistVars, Ids>>
    /\ UNCHANGED message_data
    /\ Handled(FALSE)

\* ------------------------------------------- handle_presentation_command
\* variant: pause_presentation records the cursor as the paused segment
PausedState_AtCursor(s) ==
    [s EXCEPT !.presentation_paused = TRUE,
              !.pause_timestamp = now,
              !.paused_at_segment = s.current_segment,
              !.paused_mid_segment = TRUE]

PausedState(s) ==
    [s EXCEPT !.presentation_paused = TRUE,
              !.pause_timestamp = now,
              !.paused_at_segment = Max(0, s.current_segment - 1),
              !.paused_mid_segment = TRUE]

PausePresentation ==
    /\ pc = "idle"
    /\ conn = "open"
    /\ ~command_returns_early
    /\ state' = PausedState(state)
    /\ tasks' = Cancel(tasks, presentation_tasks)
    /\ out' = <<>>
    /\ ev' = "pause_presentation"
    /\ UNCHANGED <<segments, conn, presentation_tasks, timers, pc, hm, now, Ghost>>
    /\ appended' = <<>>
    /\ undisturbed' = FALSE
    /\ UNCHANGED <<interruptedLast, HistVars, Ids>>
    /\ Receive({"pause_presentation"}, BOOLEAN, "command")
    /\ Handled(FALSE)

\* variant: the mid-segment branch is taken only after an explicit pause
MidSegmentPause_NeedsTimestamp(s) == s.paused_mid_segment /\ s.pause_timestamp # None

MidSegmentPause(s) == s.paused_mid_segment /\ s.paused_at_segment # None

\* variant: the mid-segment resume forgets to clear paused_at_segment
MidSegmentResumedState_KeepsPausedAt(s) ==
    [s EXCEPT !.presentation_paused = FALSE,
              !.paused_mid_segment = FALSE,
              !.pause_timestamp = None]

\* resume_presentation after a mid-segment pause: the fields it resets
MidSegmentResumedState(s) ==
    [s EXCEPT !.presentation_paused = FALSE,
              !.paused_mid_segment = FALSE,
              !.pause_timestamp = None,
              !.paused_at_segment = None]

ResumePresentation ==
    /\ pc = "idle"
    /\ conn = "open"
    /\ ~command_returns_early
    /\ IF MidSegmentPause(state)
       THEN /\ out' = <<Envelope("resume_mid_segment", None, None,
                                 state.paused_at_segment, state.pause_timestamp)>>
            /\ state' = MidSegmentResumedState(state)
            /\ ev' = "resume_mid_segment"
            /\ UNCHANGED <<tasks, presentation_tasks>>
       ELSE /\ HasFree(tasks)
            /\ state' = [state EXCEPT !.presentation_paused = FALSE,
                                      !.current_segment =
                                          IF state.paused_at_segment # None
                                          THEN state.paused_at_segment
                                          ELSE state.current_segment,
                                      !.paused_at_segment = None]
            /\ tasks' = CreateTask(tasks)
            /\ presentation_tasks' = FreeSlot(tasks)
            /\ out' = <<>>
            /\ ev' = "resume_regular"
    /\ UNCHANGED <<segments, conn, timers, pc, hm, now, Ghost>>
    /\ appended' = <<>>
    /\ undisturbed' = FALSE
    /\ UNCHANGED <<interruptedLast, HistVars, Ids>>
    /\ Receive({"resume_presentation"}, BOOLEAN, "command")
    /\ Handled(TRUE)

SegmentComplete ==
    /\ pc = "idle"
    /\ conn = "open"
    /\ ~command_returns_early
    /\ HasFree(tasks)
    /\ tasks' = CreateTask(tasks)
    /\ presentation_tasks' = FreeSlot(tasks)
    /\ out' = <<>>
    /\ ev' = "segment_complete"
    /\ UNCHANGED <<segments, state, conn, timers, pc, hm, now, Ghost>>
    /\ appended' = <<>>
    /\ undisturbed' = FALSE
    /\ UNCHANGED <<interruptedLast, HistVars, Ids>>
    /\ Receive({"segment_complete"}, BOOLEAN, "command")
    /\ Handled(FALSE)

\* next_slide, after "await asyncio.sleep(0.1)" if a task had to be cancelled
NextSlideRest ==
    IF state.current_segment >= get_total_segments
    THEN /\ ev' = "next_slide_at_end"
         /\ UNCHANGED <<state, presentation_tasks>>
         /\ tasks' = tasks
    ELSE /\ HasFree(tasks)
         /\ state' = [state EXCEPT !.presentation_paused = FALSE,
                                   !.paused_at_segment = None,
                                   !.paused_mid_segment = FALSE]
         /\ tasks' = CreateTask(tasks)
         /\ presentation_tasks' = FreeSlot(tasks)
         /\ ev' = "next_slide"

NextSlide ==
    /\ pc = "idle"
    /\ conn = "open"
    /\ ~command_returns_early
    /\ IF presentation_tasks # 0 /\ tasks[presentation_tasks] # "free"
       THEN /\ tasks' = Cancel(tasks, presentation_tasks)
            /\ pc' = "next_slide_sleep"
            /\ ev' = "next_slide_cancel"
            /\ UNCHANGED <<state, presentation_tasks>>
       ELSE /\ NextSlideRest
            /\ UNCHANGED pc
    /\ out' = <<>>
    /\ UNCHANGED <<segments, conn, timers, hm, now, Ghost>>
    /\ appended' = <<>>
    /\ undisturbed' = FALSE
    /\ UNCHANGED <<interruptedLast, HistVars, Ids>>
    /\ Receive({"next_slide"}, BOOLEAN, "command")
    /\ Handled(TRUE)

NextSlideResume ==
    /\ pc = "next_slide_sleep"
    /\ NextSlideRest
    /\ pc' = "idle"
    /\ out' = <<>>
    /\ UNCHANGED <<segments, conn, timers, hm, now, Ghost>>
    /\ appended' = <<>>
    /\ undisturbed' = FALSE
    /\ UNCHANGED <<interruptedLast, HistVars, Ids>>
    /\ UNCHANGED message_data
    /\ Handled(TRUE)

\* a command for a conversation id that has no ConversationState
UnknownCommand ==
    /\ pc = "idle"
    /\ conn = "open"
    /\ command_returns_early
    /\ Receive(Commands, BOOLEAN, "command")
    /\ out' = <<>>
    /\ ev' = "unknown_conversation"
    /\ appended' = <<>>
    /\ Handled(FALSE)
    /\ UNCHANGED <<segments, state, conn, presentation_tasks, tasks, timers, pc, hm,
                   now, Ghost, interruptedLast, undisturbed, HistVars, Ids>>

\* a user message for a conversation id that has no ConversationState:
\* handle_message raises ValueError, which ends the endpoint ("except
\* Exception", then "finally")
HandleMessageUnknown ==
    /\ pc = "idle"
    /\ conn = "open"
    /\ handle_message_raises
    /\ Receive(Commands \cup {"none"}, {TRUE}, "message")
    /\ conn' = "closed"
    /\ tasks' = Cancel(tasks, presentation_tasks)
    /\ presentation_tasks' = 0
    /\ pc' = "closed"
    /\ out' = <<>>
    /\ ev' = "not_found"
    /\ appended' = <<>>
    /\ Handled(FALSE)
    /\ UNCHANGED <<segments, state, timers, hm, now, Ghost, interruptedLast,
                   undisturbed, HistVars, Ids>>

\* a message with an empty text and no command: "if user_message.text" fails
EmptyMessage ==
    /\ pc = "idle"
    /\ conn = "open"
    /\ Receive({"none"}, {FALSE}, "ignored")
    /\ out' = <<>>
    /\ ev' = "empty_message"
    /\ appended' = <<>>
    /\ Handled(FALSE)
    /\ UNCHANGED <<segments, state, conn, presentation_tasks, tasks, timers, pc, hm,
                   now, Ghost, interruptedLast, undisturbed, HistVars, Ids>>

\* ------------------------------------------------------------- disconnect
\* websocket_endpoint "finally": receive_text or send_text raised
Disconnect ==
    /\ pc \in {"idle", "sending"}
    /\ conn = "open"
    /\ conn' = "closed"
    /\ tasks' = Cancel(tasks, presentation_tasks)
    /\ presentation_tasks' = 0
    /\ pc' = "closed"
    /\ out' = <<>>
    /\ ev' = "disconnect"
    /\ UNCHANGED <<segments, state, timers, hm, now, Ghost>>
    /\ appended' = <<>>
    /\ undisturbed' = FALSE
    /\ UNCHANGED <<interruptedLast, HistVars, Ids>>
    /\ message_data' = NoMessage
    /\ Handled(FALSE)

Next ==
    \/ Tick
    \/ Connect
    \/ \E t \in Slots : DriverWake(t)
    \/ \E t \in Slots : DriverPoll(t)
    \/ \E t \in Slots : DriverDwellEnd(t)
    \/ \E t \in Slots : DriverCancelled(t)
    \/ ScheduledResume
    \/ HandleMessage
    \/ AnswerReturns
    \/ SendDone
    \/ PausePresentation
    \/ ResumePresentation
    \/ SegmentComplete
    \/ NextSlide
    \/ NextSlideResume
    \/ UnknownCommand
    \/ HandleMessageUnknown
    \/ EmptyMessage
    \/ Disconnect

Spec == Init /\ [][Next]_vars

\* ------------------------------------------- handle_message called directly
\* ConversationController.handle_message called with an empty text.  The
\* websocket endpoint hands over non-empty texts only; the method itself takes
\* any UserMessage and appends the question before it looks at the text.  The
\* call runs to its return without suspending.
HandleMessageEmptyText ==
    /\ LoopFree
    /\ ~handle_message_raises
    /\ IF state.mode = RAG
       THEN \E run \in ProviderRuns :
                /\ appended' = <<Appended("user", "question"),
                                 Appended("assistant", "rag_answer")>>
                /\ out' = <<answer_question(run.search, run.llm)>>
                /\ ev' = "question_answered"
       ELSE /\ appended' = <<Appended("user", "question")>>
            /\ out' = <<>>
            /\ ev' = "unanswered"
    /\ UNCHANGED <<segments, state, conn, presentation_tasks, tasks, timers, pc, hm,
                   now, Ghost, interruptedLast, undisturbed, HistVars, Ids>>
    /\ Background

ControllerNext ==
    \/ Next
    \/ HandleMessageEmptyText

\* the session together with direct callers of the controller
ControllerSpec == Init /\ [][ControllerNext]_vars

\* ------------------------------------------------ undisturbed playback
\* a created session whose client connects and then sends nothing
PlaybackInit ==
    /\ Init
    /\ conversation_id = Created

\* the steps the program takes when no inbound event arrives: the connection,
\* the steps of the driver it starts, and the end of the connection
PlaybackNext ==
    \/ Tick
    \/ Connect
    \/ \E t \in Slots : DriverWake(t)
    \/ \E t \in Slots : DriverPoll(t)
    \/ \E t \in Slots : DriverDwellEnd(t)
    \/ \E t \in Slots : DriverCancelled(t)
    \/ Disconnect

\* the event loop resumes a task whose sleep is over: asyncio.sleep(1) and
\* asyncio.sleep(0.5) end, the dwell wait ends once elapsed reaches
\* total_wait_time, a finite number of polls, and a cancellation is delivered
\* when the cancelled task is scheduled next
PlaybackSpec ==
    /\ PlaybackInit
    /\ [][PlaybackNext]_vars
    /\ \A t \in Slots : /\ WF_vars(DriverWake(t))
                        /\ WF_vars(DriverPoll(t))
                        /\ WF_vars(DriverDwellEnd(t))
                        /\ WF_vars(DriverCancelled(t))

\* ------------------------------------------------- ConversationHistory
MaxHistoryParam == 3    \* largest max_history a ConversationHistory is built with
MaxAppends == 5         \* add_message calls in one run
MaxBudget == 4          \* largest max_messages passed to get_context

\* the (role, message_type) pairs the controller passes to add_message
MessageKinds == {<<"user", "question">>, <<"assistant", "rag_answer">>,
                 <<"assistant", "presentation">>}

Front(s) == SubSeq(s, 1, Len(s) - 1)

Last(s) == s[Len(s)]

\* Python s[i:]
SliceFrom(s, i) ==
    IF i >= 0
    THEN SubSeq(s, i + 1, Len(s))
    ELSE SubSeq(s, Max(1, Len(s) + i + 1), Len(s))

\* Python a // b for b > 0 (rounds towards minus infinity)
FloorDiv(a, b) == IF a >= 0 THEN a \div b ELSE -((-a + b - 1) \div b)

\* variant: a full deque refuses the new message instead of evicting
DequeAppend_DropNewest(d, message, maxlen) ==
    IF Len(d) >= maxlen THEN d ELSE Append(d, message)

\* deque(maxlen = max_history).append(message)
DequeAppend(d, message, maxlen) ==
    IF maxlen = 0 THEN d
    ELSE IF Len(d) = maxlen THEN Append(Tail(d), message)
    ELSE Append(d, message)

RECURSIVE Filter(_, _)
Filter(s, important) ==
    IF s = <<>> THEN <<>>
    ELSE LET rest == Filter(Tail(s), important)
             keep == (Head(s).type \in {"question", "rag_answer"}) = important
         IN IF keep THEN <<Head(s)>> \o rest ELSE rest

\* list.sort(key = timestamp): a stable sort
RECURSIVE InsertByTimestamp(_, _)
InsertByTimestamp(s, x) ==
    IF s = <<>> THEN <<x>>
    ELSE IF Last(s).timestamp <= x.timestamp THEN Append(s, x)
    ELSE Append(InsertByTimestamp(Front(s), x), Last(s))

RECURSIVE SortByTimestamp(_)
SortByTimestamp(s) ==
    IF s = <<>> THEN <<>>
    ELSE InsertByTimestamp(SortByTimestamp(Front(s)), Last(s))

get_context(messages, budget) ==
    IF Len(messages) <= budget THEN messages
    ELSE LET window == SliceFrom(messages, -(budget * 2))
             important_messages == Filter(window, TRUE)
             regular_messages == Filter(window, FALSE)
             combined == SliceFrom(important_messages, FloorDiv(-budget, 2))
                         \o SliceFrom(regular_messages, -(budget \div 2))
         IN SliceFrom(SortByTimestamp(combined), -budget)

\* a ConversationHistory built with some max_history, nothing stored yet
HistInit ==
    /\ SessionInit
    /\ conversation_id = Created
    /\ segments = 0
    /\ max_history \in 0..MaxHistoryParam
    /\ history = <<>>
    /\ log = <<>>
    /\ max_messages = None
    /\ context = <<>>

\* add_message: the entry is stamped with the clock and appended
AddMessage(kind) ==
    /\ Len(log) < MaxAppends
    /\ LET message == [role |-> kind[1], content |-> Len(log) + 1,
                       type |-> kind[2], timestamp |-> now]
       IN /\ history' = DequeAppend(history, message, max_history)
          /\ log' = Append(log, message)
    /\ max_messages' = None
    /\ context' = <<>>
    /\ ev' = "add_message"
    /\ UNCHANGED <<SessionVars, max_history, now>>

GetContext(budget) ==
    /\ max_messages' = budget
    /\ context' = get_context(history, budget)
    /\ ev' = "get_context"
    /\ UNCHANGED <<SessionVars, max_history, history, log, now>>

HistNext ==
    \/ Tick
    \/ \E kind \in MessageKinds : AddMessage(kind)
    \/ \E budget \in 0..MaxBudget : GetContext(budget)

HistSpec == HistInit /\ [][HistNext]_vars

\* ======================================================================
\* Properties
\* ======================================================================

\* C1: after any sequence of inbound events at most one driver task that can
\* still fetch and advance the cursor is alive in the session.
C1_AtMostOneLiveDriver == Cardinality(Live(tasks)) <= 1

\* C2: when handle_message takes a user message in PRESENTATION mode with
\* cursor c, the state at the call of the Answer Provider has
\* paused_at_segment = max(0, c-1), mode = RAG, presentation_paused and
\* paused_mid_segment true, and current_segment still c.
C2_InterruptBeforeDispatch ==
    [][(pc = "idle" /\ pc' = "answering" /\ state.mode = PRESENTATION)
       => /\ state'.paused_at_segment = Max(0, state.current_segment - 1)
          /\ state'.mode = RAG
          /\ state'.presentation_paused
          /\ state'.paused_mid_segment
          /\ state'.current_segment = state.current_segment]_vars

C2_Witness ==
    /\ pc = "answering"
    /\ ev = "interrupt"
    /\ state.current_segment = 2
    /\ state.paused_at_segment = 1

\* C3: a scheduled resume that returns the session to PRESENTATION after an
\* interruption that captured interrupted_segment_text sends a
\* presentation_resume envelope carrying the captured text and the id of the
\* interrupted segment.
C3_ResumeEnvelopeSent ==
    [][(ev' = "resumed" /\ conn = "open" /\ state.interrupted_segment_text # None)
       => \E i \in 1..Len(out') :
              /\ out'[i].type = "presentation_resume"
              /\ out'[i].text = state.interrupted_segment_text
              /\ out'[i].segment_id = state.paused_at_segment]_vars

\* C4: once a user message has interrupted the presentation while the last
\* segment was displayed, mode is never PRESENTATION again.
C4_LastInterruptStaysRag == interruptedLast => state.mode = RAG

C4_Witness ==
    /\ interruptedLast
    /\ ev = "next_slide"
    /\ segments >= 1

\* C5: if the interrupted segment was the last one, then once no resume is
\* pending any more the session is in RAG with every pause field cleared.
PauseFieldsCleared ==
    /\ ~state.presentation_paused
    /\ state.paused_at_segment = None
    /\ ~state.paused_mid_segment
    /\ state.interrupted_segment_text = None

C5_LastInterruptCleared ==
    (interruptedLast /\ undisturbed /\ pc # "answering" /\ timers = 0)
        => (state.mode = RAG /\ PauseFieldsCleared)

\* C6 (as stated): the ids returned by successive successful fetches are
\* strictly increasing from 0 until a fetch finds no segment, and no fetch
\* returns a segment after that.
C6_StrictlyIncreasing ==
    [][ev' = "fetch" => (~exhausted /\ lastFetch' > lastFetch
                         /\ (lastFetch = None => lastFetch' = 0))]_vars

\* C6 (amended): the ids returned by successive successful fetches start at 0
\* and each is one more than the previous one, except that the first fetch
\* after a scheduled resume returns the segment the resume put the cursor
\* back to, which is never after the previous one; no fetch returns a
\* segment once a fetch has found none.
C6_IncreasingUpToReplay ==
    [][ev' = "fetch"
       => /\ ~exhausted
          /\ IF lastFetch = None THEN lastFetch' = 0
             ELSE IF resumedSince THEN lastFetch' <= lastFetch
             ELSE lastFetch' = lastFetch + 1]_vars

C6_Witness ==
    /\ ev = "fetch"
    /\ lastFetch = 0
    /\ prevFetch = 0
    /\ segments = 2

\* C7: after any sequence of add_message calls the stored history has at most
\* max_history entries and is the last min(n, max_history) entries appended,
\* in append order.
C7_HistoryIsTail ==
    LET n == Len(log)
        k == IF n <= max_history THEN n ELSE max_history
    IN /\ Len(history) <= max_history
       /\ history = SubSeq(log, n - k + 1, n)

C7_Witness ==
    /\ max_history = 3
    /\ Len(log) = 5
    /\ Len(history) = 3

\* C8: for every budget >= 0, get_context returns at most budget entries, in
\* the relative order in which they were appended.
C8_ContextBoundedAndOrdered ==
    ev = "get_context"
        => /\ Len(context) <= max_messages
           /\ \A i, j \in 1..Len(context) :
                  i < j => context[i].content < context[j].content

\* C9: pause_presentation with cursor c sets presentation_paused,
\* paused_at_segment = max(0, c-1), paused_mid_segment and pause_timestamp =
\* the current time, leaves mode and current_segment alone, and leaves no
\* driver of the session able to fetch.
C9_PauseStopsDriver ==
    [][ev' = "pause_presentation"
       => /\ state'.presentation_paused
          /\ state'.paused_at_segment = Max(0, state.current_segment - 1)
          /\ state'.paused_mid_segment
          /\ state'.pause_timestamp = now
          /\ state'.mode = state.mode
          /\ state'.current_segment = state.current_segment
          /\ Live(tasks') = {}]_vars

\* C10: resume_presentation after a mid-segment pause emits exactly one
\* resume_mid_segment envelope with the paused segment id and the pause
\* timestamp, fetches nothing, leaves current_segment alone, starts no driver
\* task and leaves the pause fields cleared.
C10_MidSegmentResume ==
    [][(ev' \in {"resume_mid_segment", "resume_regular"}
        /\ state.paused_mid_segment /\ state.paused_at_segment # None)
       => /\ out' = <<Envelope("resume_mid_segment", None, None,
                               state.paused_at_segment, state.pause_timestamp)>>
          /\ <<lastFetch, prevFetch, exhausted>>' = <<lastFetch, prevFetch, exhausted>>
          /\ state'.current_segment = state.current_segment
          /\ tasks' = tasks
          /\ presentation_tasks' = presentation_tasks
          /\ ~state'.presentation_paused
          /\ state'.paused_at_segment = None
          /\ ~state'.paused_mid_segment
          /\ state'.pause_timestamp = None]_vars

C10_Witness ==
    /\ ev = "resume_mid_segment"
    /\ Len(out) = 1
    /\ out[1].segment_id = 1
    /\ out[1].pause_timestamp = 1
    /\ state.current_segment = 2

\* C11 (as stated): processing next_slide while current_segment equals the
\* number of segments changes no ConversationState field, starts no driver
\* task and cancels no running driver task.
C11_NextSlideAtEndChangesNothing ==
    [][(ev' \in {"next_slide_cancel", "next_slide_at_end", "next_slide"}
        /\ state.current_segment = get_total_segments)
       => /\ state' = state
          /\ tasks' = tasks
          /\ presentation_tasks' = presentation_tasks]_vars

\* C12: once a fetch has found no segment at the cursor, mode is RAG in every
\* later state and no later fetch produces the closing message again,
\* whatever events follow and however many driver tasks are started.
C12_ExhaustionIsFinal ==
    /\ [](exhausted => state.mode = RAG)
    /\ [][exhausted => ev' # "exhausted"]_vars

C12_Witness ==
    /\ exhausted
    /\ ev = "segment_complete"
    /\ Cardinality(Live(tasks)) = 2
    /\ segments = 2

\* the steps in which the endpoint takes up a user message
MessageEvents == {"not_found", "interrupt", "question"}

\* the steps of handle_presentation_command
CommandEvents == {"unknown_conversation", "pause_presentation", "resume_mid_segment",
                  "resume_regular", "segment_complete", "next_slide_cancel",
                  "next_slide", "next_slide_at_end"}

\* C13: handle_message for a conversation id that was never created fails
\* with the NotFound error; no ConversationState is created or modified, no
\* history entry is appended and the Answer Provider is not invoked.
C13_UnknownMessageNotFound ==
    [][(conversation_id \notin conversations /\ ev' \in MessageEvents)
       => /\ ev' = "not_found"
          /\ conversations' = conversations
          /\ state' = state
          /\ appended' = <<>>
          /\ history' = history
          /\ log' = log
          /\ pc' # "answering"]_vars

C13_Witness ==
    /\ conversation_id = NeverCreated
    /\ ev = "not_found"
    /\ message_data.text
    /\ state = create_conversation

\* C14: a command for a conversation id that has no ConversationState is a
\* no-op: no state is created or changed, no envelope is sent, no driver task
\* is started or cancelled and no resume is scheduled.
C14_UnknownCommandNoOp ==
    [][(conversation_id \notin conversations /\ message_data'.command # "none"
        /\ ev' \in CommandEvents)
       => /\ ev' = "unknown_conversation"
          /\ conversations' = conversations
          /\ state' = state
          /\ out' = <<>>
          /\ tasks' = tasks
          /\ presentation_tasks' = presentation_tasks
          /\ timers' = timers]_vars

C14_Witness ==
    /\ conversation_id = NeverCreated
    /\ ev = "unknown_conversation"
    /\ message_data.command = "next_slide"
    /\ tasks[1] = "init"
    /\ presentation_tasks = 1

\* C15 (as stated): segment_complete is an idempotent nudge: processed twice in
\* a row, or while a driver is active, it leaves exactly one driver that can
\* fetch, so that the cursor advances by one per dwell.
C15_SegmentCompleteIdempotent ==
    [][ev' = "segment_complete" => Cardinality(Live(tasks')) = 1]_vars

\* answer_question returns to a handle_message whose similarity search or
\* language-model call failed
ProviderFailed == hm.search = "raises" \/ hm.llm = "raises"

\* handle_message completes its transition: the answer is appended to the
\* history, the resume is scheduled if the interrupted segment is not the last
\* one, and the answer goes back to the endpoint
TransitionCompleted ==
    /\ appended' = <<Appended("assistant", "rag_answer")>>
    /\ timers' = IF hm.branch = "interrupt"
                    /\ hm.currently_displaying_segment < get_total_segments - 1
                 THEN timers + 1 ELSE timers
    /\ pc' = "sending"
    /\ Len(out') = 1
    /\ out'[1].type = "rag_answer"

\* C16 (as stated): answer_question never raises; for every failure of the
\* similarity search or of the language-model call it returns a rag_answer
\* with the apologetic text and no sources, and handle_message completes its
\* transition.
C16_FailuresGetApology ==
    [][(ev' = "answer" /\ ProviderFailed)
       => /\ TransitionCompleted
          /\ out'[1].text = ApologyText
          /\ out'[1].sources = <<>>]_vars

\* C16 (amended): answer_question never raises; when the similarity search
\* fails it returns a rag_answer with the apologetic text and no sources, when
\* the language-model call fails it returns a rag_answer with the fallback
\* text built from the pages found and with their sources; in both cases
\* handle_message completes its transition.
C16_FailuresGetAnswer ==
    [][(ev' = "answer" /\ ProviderFailed)
       => /\ TransitionCompleted
          /\ IF hm.search = "raises"
             THEN out'[1].text = ApologyText /\ out'[1].sources = <<>>
             ELSE out'[1].text = FallbackText /\ out'[1].sources # <<>>]_vars

C16_Witness ==
    /\ ev = "answer"
    /\ pc = "sending"
    /\ out = <<RagAnswer(FallbackText, <<"page">>)>>
    /\ timers = 1
    /\ appended = <<Appended("assistant", "rag_answer")>>

\* a fetch: a driver hands a segment or the closing message to the websocket
Transmits == ev' \in {"fetch", "exhausted"}

\* the driver whose send raised is over after one attempt: its task is done,
\* no other task is touched and nothing is scheduled
FailedDriverEnds ==
    /\ \E t \in Slots : /\ tasks[t] \in {"init", "dwell"}
                        /\ tasks' = [tasks EXCEPT ![t] = "free"]
    /\ Len(out') = 1
    /\ timers' = timers

\* C17 (as stated): a driver whose send fails terminates without retrying and
\* without another fetch, and no driver transmits for the session until a
\* resume_presentation or next_slide event has been processed.
C17_IdleUntilResumeOrSkip ==
    /\ [][sendError' => FailedDriverEnds]_vars
    /\ [][sendFailedSince # "no" => ~Transmits]_vars

\* C17 (amended): a driver whose send fails terminates without retrying and
\* without another fetch, and nothing restarts the playback by itself: no
\* driver task is started until the endpoint has processed another inbound
\* event.
C17_IdleUntilInboundEvent ==
    /\ [][sendError' => FailedDriverEnds]_vars
    /\ [][(sendFailedSince = "failed" /\ sendFailedSince' = "failed")
           => Live(tasks') \subseteq Live(tasks)]_vars

C17_Witness ==
    /\ sendFailedSince = "failed"
    /\ ev = "tick"
    /\ Live(tasks) = {}
    /\ state.mode = PRESENTATION
    /\ state.current_segment = 1
    /\ segments = 2

\* C18: in every reachable state paused_at_segment is set only if
\* presentation_paused is true: no transition (interrupt, scheduled resume,
\* pause, resume, next_slide, exhaustion) leaves presentation_paused false
\* with paused_at_segment still set.
C18_PausedAtOnlyWhilePaused ==
    state.paused_at_segment # None => state.presentation_paused

C18_Witness ==
    /\ ev = "resume_mid_segment"
    /\ ~state.presentation_paused
    /\ state.paused_at_segment = None
    /\ state.mode = RAG
    /\ timers = 1

\* C19 (as stated): in every reachable state interrupted_segment_text is set
\* only if paused_mid_segment is true; resume_presentation and next_slide
\* after an interruption do not leave the text set with the flag cleared.
C19_TextOnlyWhilePausedMid ==
    state.interrupted_segment_text # None => state.paused_mid_segment

\* C20: an inbound event that carries a command is handled by the Command
\* Handler alone, even if it also carries a text: handling it does not invoke
\* the Answer Provider, appends nothing to the Conversation History and
\* leaves mode alone.
C20_CommandNeverReachesProvider ==
    [][(message_data'.command # "none"
        /\ ev' \in MessageEvents \cup CommandEvents \cup {"empty_message"})
       => /\ ev' \in CommandEvents
          /\ pc' # "answering"
          /\ appended' = <<>>
          /\ history' = history
          /\ state'.mode = state.mode]_vars

C20_Witness ==
    /\ ev = "pause_presentation"
    /\ message_data = [command |-> "pause_presentation", text |-> TRUE]
    /\ state.mode = PRESENTATION
    /\ state.current_segment = 1
    /\ pc = "idle"

\* C21: a newly created session has mode = PRESENTATION, current_segment = 0,
\* presentation_paused = false and no pause field set; the first fetch of a
\* session returns segment 0 and leaves current_segment = 1, and every
\* successful fetch returns the segment at the cursor and advances the cursor
\* by exactly one.
C21_NewSessionAndFetch ==
    /\ [](ev = "init"
           => /\ state.mode = PRESENTATION
              /\ state.current_segment = 0
              /\ ~state.presentation_paused
              /\ state.paused_at_segment = None
              /\ ~state.paused_mid_segment
              /\ state.pause_timestamp = None
              /\ state.interrupted_segment_text = None)
    /\ [][ev' = "fetch"
           => /\ lastFetch' = state.current_segment
              /\ state'.current_segment = state.current_segment + 1
              /\ Len(out') = 1
              /\ out'[1].segment_id = state.current_segment
              /\ (lastFetch = None => lastFetch' = 0 /\ state'.current_segment = 1)]_vars

C21_Witness ==
    /\ ev = "fetch"
    /\ lastFetch = 0
    /\ prevFetch = None
    /\ state.current_segment = 1
    /\ segments = 2

\* C22 (as stated): the ConversationState of a session is discarded when the
\* session ends: once the connection of the session is closed, get_state for
\* its id returns none.
C22_StateDiscardedAtSessionEnd ==
    conn = "closed" => conversation_id \notin conversations

\* the delay of a scheduled resume is over
ResumeFires == ev' \in {"resumed", "resume_skipped", "resume_finalized"}

\* a user message has interrupted a segment that is not the last one, the
\* answer has been produced, and neither a command nor a disconnect nor the
\* scheduled resume has come since
ResumePending ==
    /\ undisturbed
    /\ pc # "answering"
    /\ state.mode = RAG
    /\ state.presentation_paused
    /\ state.paused_at_segment # None
    /\ state.paused_at_segment < get_total_segments - 1

C24_InterruptedTextIsOfPausedSegment ==
    /\ [][ev' = "interrupt"
           => (get_segment(state'.paused_at_segment) # None
               => state'.interrupted_segment_text = SegText(state'.paused_at_segment))]_vars
    /\ []((state.interrupted_segment_text # None /\ state.paused_at_segment # None)
           => state.interrupted_segment_text = SegText(state.paused_at_segment))

C24_Witness ==
    /\ ev = "interrupt"
    /\ state.current_segment = 2
    /\ state.paused_at_segment = 1
    /\ state.interrupted_segment_text = SegText(1)
    /\ lastFetch = 1

\* C25: a user message handled while mode = RAG is answered with a rag_answer
\* and leaves every ConversationState field as it was (mode, current_segment,
\* presentation_paused, paused_at_segment, paused_mid_segment,
\* pause_timestamp, interrupted_segment_text); no resume is scheduled for it.
C25_RagMessageChangesNothing ==
    /\ [][(ev' \in {"interrupt", "question"} /\ state.mode = RAG)
           => /\ ev' = "question"
              /\ hm'.branch = "rag"
              /\ state' = state
              /\ timers' = timers]_vars
    /\ [][(ev' = "answer" /\ hm.branch = "rag")
           => /\ state' = state
              /\ timers' = timers
              /\ Len(out') = 1
              /\ out'[1].type = "rag_answer"
              /\ appended' = <<Appended("assistant", "rag_answer")>>]_vars

C25_Witness ==
    /\ ev = "answer"
    /\ state.mode = RAG
    /\ exhausted
    /\ ~state.presentation_paused
    /\ state.current_segment = 2
    /\ timers = 0
    /\ out = <<RagAnswer(AnswerText, <<"page">>)>>

\* a step of a driver that is not the delivery of a cancellation
DriverStep == ev' \in {"poll", "fetch", "exhausted", "driver_exit"}

\* C26: a driver that finds mode # PRESENTATION or presentation_paused (or no
\* ConversationState) at a poll exits at that poll; the exit sends nothing
\* and changes no ConversationState field.
C26_DriverExitsAtPoll ==
    /\ [][(DriverStep /\ (\/ state.mode # PRESENTATION
                           \/ state.presentation_paused
                           \/ conversation_id \notin conversations))
           => ev' = "driver_exit"]_vars
    /\ [][ev' = "driver_exit"
           => /\ state' = state
              /\ out' = <<>>
              /\ appended' = <<>>
              /\ UNCHANGED <<lastFetch, prevFetch, exhausted>>
              /\ \E t \in Slots : /\ tasks[t] \in {"init", "dwell"}
                                  /\ tasks' = [tasks EXCEPT ![t] = "free"]]_vars

C26_Witness ==
    /\ ev = "driver_exit"
    /\ state.presentation_paused
    /\ state.mode = PRESENTATION
    /\ state.current_segment = 1
    /\ lastFetch = 0
    /\ Live(tasks) = {}

\* C27: under every interleaving of the drivers with the handling of inbound
\* events, a segment is fetched and handed to the websocket only in a state
\* with mode = PRESENTATION and presentation_paused = false: a pause or an
\* interruption applied during a dwell wait is seen before the next fetch.
C27_NoFetchWhilePausedOrRag ==
    [][Transmits => /\ state.mode = PRESENTATION
                    /\ ~state.presentation_paused
                    /\ conversation_id \in conversations
                    /\ conn = "open"]_vars

C27_Witness ==
    /\ ev = "fetch"
    /\ lastFetch = 1
    /\ prevFetch = 0
    /\ state.pause_timestamp # None
    /\ ~state.presentation_paused

\* C28 (as stated): next_slide processed with current_segment below the
\* number of segments leaves presentation_paused = false and every pause
\* field cleared (paused_at_segment, paused_mid_segment, pause_timestamp,
\* interrupted_segment_text), leaves current_segment alone, and leaves the
\* newly started driver task as the only driver of the session.
C28_NextSlideClearsAndRestarts ==
    [][ev' = "next_slide"
       => /\ ~state'.presentation_paused
          /\ state'.paused_at_segment = None
          /\ ~state'.paused_mid_segment
          /\ state'.pause_timestamp = None
          /\ state'.interrupted_segment_text = None
          /\ state'.current_segment = state.current_segment
          /\ presentation_tasks' # 0
          /\ tasks[presentation_tasks'] = "free"
          /\ Live(tasks') = {presentation_tasks'}]_vars

Min(a, b) == IF a <= b THEN a ELSE b

\* C29 (as stated): get_context(budget) returns exactly min(count, budget)
\* entries, whatever the mix of important and regular entries stored.
C29_ContextHasMinCountBudget ==
    ev = "get_context" => Len(context) = Min(Len(history), max_messages)

\* the entries s[i] that also occur in the sequence c
RECURSIVE AllIn(_, _)
AllIn(s, c) ==
    IF s = <<>> THEN TRUE
    ELSE (\E j \in 1..Len(c) : c[j] = Head(s)) /\ AllIn(Tail(s), c)

\* C30 (as stated): under truncation (more entries stored than the budget,
\* budget >= 1) at most half the budget of the result is regular entries,
\* and the result contains the most recent important entries of the
\* inspected window, up to half the budget (rounded up) of them: no regular
\* entry displaces one of these.
C30_ImportantPreferred ==
    (ev = "get_context" /\ max_messages >= 1 /\ Len(history) > max_messages)
        => LET window == SliceFrom(history, -(2 * max_messages))
               important == Filter(window, TRUE)
               half == (max_messages + 1) \div 2
               n == Min(half, Len(important))
               kept == SubSeq(important, Len(important) - n + 1, Len(important))
           IN /\ Len(Filter(context, FALSE)) <= max_messages \div 2
              /\ AllIn(kept, context)

\* C31 (as stated): every user message that handle_message answers, in
\* PRESENTATION or in RAG mode, appends exactly two history entries, the user
\* question and then the assistant rag_answer; a message that handle_message
\* does not answer (empty text in PRESENTATION mode) appends nothing.
C31_TwoEntriesOrNone ==
    /\ [][ev' \in {"interrupt", "question"}
           => /\ appended' = <<Appended("user", "question")>>
              /\ pc' = "answering"]_vars
    /\ [][(pc = "answering" /\ ev' # "tick")
           => /\ ev' = "answer"
              /\ appended' = <<Appended("assistant", "rag_answer")>>]_vars
    /\ [][ev' = "question_answered"
           => appended' = <<Appended("user", "question"),
                            Appended("assistant", "rag_answer")>>]_vars
    /\ [][ev' \in {"unanswered", "empty_message"} => appended' = <<>>]_vars

\* the playback is over: the closing message has gone out, the session is in
\* RAG and no driver task is left
PlaybackOver ==
    /\ exhausted
    /\ state.mode = RAG
    /\ \A t \in Slots : tasks[t] = "free"

\* C32: with no inbound event and no transport failure, and as long as the
\* connection stays open, a session with n
\* segments has segments 0..n-1 transmitted in this order, each once, then
\* the closing message, after which mode = RAG and the driver task ends (at
\* its next poll); and this comes about eventually.
C32_PlaybackRunsToTheEnd ==
    /\ [][ev' = "fetch"
           => /\ ~exhausted
              /\ lastFetch' = IF lastFetch = None THEN 0 ELSE lastFetch + 1
              /\ out' = <<Envelope("presentation", SegText(lastFetch'),
                                   lastFetch', lastFetch', None)>>]_vars
    /\ [][ev' = "exhausted"
           => /\ ~exhausted
              /\ lastFetch = IF segments = 0 THEN None ELSE segments - 1
              /\ out' = <<Envelope("presentation", ConclusionText, None, None, None)>>
              /\ state'.mode = RAG]_vars
    /\ [](exhausted => state.mode = RAG)
    /\ (conn = "open"
          ~> (PlaybackOver \/ sendFailedSince = "failed" \/ conn = "closed"))

C32_Witness ==
    /\ PlaybackOver
    /\ segments = 2
    /\ lastFetch = 1
    /\ prevFetch = 0
    /\ sendFailedSince = "no"
    /\ conn = "open"
    /\ ev = "driver_exit"

\* the steps in which a resume_presentation or next_slide command is processed
ResumeOrSkip ==
    ev' \in {"resume_mid_segment", "resume_regular", "next_slide_cancel",
             "next_slide", "next_slide_at_end"}

\* C33 (as stated): after pause_presentation has been processed,
\* presentation_paused stays true and no segment is fetched or transmitted
\* until a resume_presentation or next_slide command is processed; here for
\* the step that follows the pause: unless it is such a command, it leaves
\* the presentation paused and transmits nothing, also when it is a scheduled
\* resume still pending from an earlier interruption.
C33_PauseHoldsUntilResumeOrSkip ==
    [][(ev = "pause_presentation" /\ ~ResumeOrSkip)
       => /\ state'.presentation_paused
          /\ ~Transmits]_vars

\* C34 (as stated): whenever mode = RAG and presentation_paused = false (and
\* no resume is pending) the presentation is over: exhaustion handling has
\* run or the interrupted segment was the last one; no command processed
\* during the resume delay strands the session in RAG with segments still
\* undelivered.
C34_RagUnpausedMeansOver ==
    (state.mode = RAG /\ ~state.presentation_paused /\ timers = 0)
        => (exhausted \/ interruptedLast)

\* the driver task t ends in this step
Ends(t) == tasks[t] # "free" /\ tasks'[t] = "free"

\* C35 (as stated): a driver that terminates or is cancelled removes only its
\* own registry entry, never the entry of a newer driver, so that a live
\* driver the registry refers to stays reachable for cancellation through it
\* when another driver ends.
C35_RegistryRefersToLiveDriver ==
    [][\A t \in Slots :
           (Ends(t) /\ ev' \in {"driver_exit", "cancelled", "fetch", "exhausted"})
               => /\ presentation_tasks # t => presentation_tasks' = presentation_tasks
                  /\ Live(tasks) \subseteq {presentation_tasks}
                         => Live(tasks') \subseteq {presentation_tasks'}]_vars

\* C36: in every reachable state 0 <= current_segment <= number of segments;
\* the cursor moves up only by one, in a fetch that returned the segment at
\* the cursor, and moves down only to the recorded paused segment, which has
\* been displayed before.
C36_CursorInRange ==
    /\ [](0 <= state.current_segment /\ state.current_segment <= get_total_segments)
    /\ [][state'.current_segment # state.current_segment
           => \/ /\ ev' = "fetch"
                 /\ get_segment(state.current_segment) # None
                 /\ state'.current_segment = state.current_segment + 1
              \/ /\ ev' \in {"resumed", "resume_regular"}
                 /\ state'.current_segment = state.paused_at_segment
                 /\ state'.current_segment < state.current_segment
                 /\ lastFetch # None
                 /\ state'.current_segment <= lastFetch]_vars

C36_Witness ==
    /\ ev = "exhausted"
    /\ state.current_segment = 2
    /\ segments = 2
    /\ resumedSince = FALSE
    /\ prevFetch = 0
    /\ lastFetch = 1
    /\ timers = 0
    /\ state.pause_timestamp = None

Closes == conn = "open" /\ conn' = "closed"

\* C38: when the connection of a session is closed, the driver task in the
\* registry is cancelled and the transport and registry entries are removed;
\* afterwards no driver task is started for the session and none transmits:
\* a scheduled resume that fires after the disconnect starts nothing and
\* sends nothing.
C38_NothingStartsAfterDisconnect ==
    /\ [][Closes
           => /\ presentation_tasks' = 0
              /\ presentation_tasks # 0
                     => tasks'[presentation_tasks] \notin {"init", "dwell"}
              /\ \A t \in Slots : tasks[t] = "free" => tasks'[t] = "free"]_vars
    /\ [][conn = "closed"
           => /\ conn' = "closed"
              /\ presentation_tasks' = 0
              /\ \A t \in Slots : tasks'[t] \in {tasks[t], "free"}
              /\ ~Transmits
              /\ out' = <<>>]_vars

C38_Witness ==
    /\ conn = "closed"
    /\ ev = "resumed"
    /\ state.mode = PRESENTATION
    /\ ~state.presentation_paused
    /\ state.current_segment = 0
    /\ presentation_tasks = 0
    /\ \A t \in Slots : tasks[t] = "free"
    /\ timers = 0

====
